---- MODULE Spec2Model ----
(***************************************************************************)
(* The casino catalogue of src/main.cpp: the composite tree of Game leaves *)
(* and Group nodes, its indented text format (save / parse), and the menu  *)
(* loop of main.                                                           *)
(*                                                                         *)
(* A std::string is a sequence of one-character strings, so that the       *)
(* character loops of getDepth, trimSpaces, substr, operator>> and stod    *)
(* are computed as the code computes them.  A double is an integer: the    *)
(* model covers integer-valued revenues, which a double holds exactly.     *)
(* A file is the sequence of its lines: save ends every line with          *)
(* std::endl and loadFromFile splits with std::getline, and no name of the *)
(* model holds a newline.                                                  *)
(***************************************************************************)
EXTENDS Integers, Sequences, FiniteSets, TLC

VARIABLES
    \* the component model and the codec, driven through their interface
    tree,       \* the tree under construction (its root is a Group)
    text,       \* the lines save wrote, with the blank lines inserted since
    saved,      \* the lines save wrote, as written
    parsed,     \* what parse returned for text
    phase,      \* "build", "saved", "parsed"
    credits,    \* the addRevenue calls made on the tree
    \* one run of parse(lines, index), call by call
    lines,      \* the vector handed to parse
    start,      \* the cursor the outermost call was entered with
    index,      \* the shared cursor
    stack,      \* the active calls of parse, innermost last
    retval,     \* the value the last finished call returned
    outcome,    \* "running", "returned", "thrown"
    calls,      \* every finished call: its cursor on entry and on exit
    maxActive,  \* the largest number of simultaneously active calls so far
    orphans,    \* the positions skipped at line 153
    \* the menu loop of main
    root,       \* main's root
    file,       \* casino.txt: its lines, or Absent
    writable,   \* whether casino.txt can be opened for writing
    console,    \* what the last menu operation printed
    lastOp,     \* the last menu operation and what it returned to main
    running,    \* "menu", "exited", "terminated" (uncaught exception)
    budget      \* menu operations that change the tree or the file, left

treeVars  == <<tree, text, saved, parsed, phase, credits>>
parseVars == <<lines, start, index, stack, retval, outcome, calls, maxActive, orphans>>
menuVars  == <<root, file, writable, console, lastOp, running, budget>>
vars      == <<treeVars, parseVars, menuVars>>

----------------------------------------------------------------------------
(* Bounds *)

MaxNodes  == 5   \* nodes of a tree built through Group.add
MaxRevOps == 1   \* addRevenue calls on a built tree
MaxBlanks == 2   \* blank lines inserted into a saved text
MaxLines  == 4   \* lines of an arbitrary input handed to parse
MaxMenuOps == 2  \* menu operations that change the tree or the file

----------------------------------------------------------------------------
(* std::string *)

\* line.empty()
IsEmpty(s) == Len(s) = 0

\* s.substr(pos, n): at most n characters from 0-based pos (pos <= size)
SubStr(s, pos, n) ==
    LET last == IF pos + n < Len(s) THEN pos + n ELSE Len(s)
    IN  SubSeq(s, pos + 1, last)

\* s.substr(pos)
SubStrFrom(s, pos) == SubSeq(s, pos + 1, Len(s))

\* for (i = 0; i < n; ++i) out << "  ";
RECURSIVE Indent(_)
Indent(n) == IF n <= 0 THEN <<>> ELSE <<" ", " ">> \o Indent(n - 1)

GROUP_PREFIX == <<"G", "R", "O", "U", "P", " ">>
GAME_PREFIX  == <<"G", "A", "M", "E", " ">>

----------------------------------------------------------------------------
(* operator<<(double) with the stream's default format and precision *)

Precision == 6

DigitChars == <<"0", "1", "2", "3", "4", "5", "6", "7", "8", "9">>

RECURSIVE Pow10(_)
Pow10(k) == IF k <= 0 THEN 1 ELSE 10 * Pow10(k - 1)

\* the decimal digits of n >= 0
RECURSIVE Digits(_)
Digits(n) ==
    IF n < 10 THEN <<DigitChars[n + 1]>>
    ELSE Digits(n \div 10) \o <<DigitChars[(n % 10) + 1]>>

RECURSIVE StripZeros(_)
StripZeros(s) ==
    IF Len(s) > 0 /\ s[Len(s)] = "0" THEN StripZeros(SubSeq(s, 1, Len(s) - 1))
    ELSE s

\* a / 10^k rounded to the nearest integer, ties to even
RoundDiv(a, k) ==
    LET p == Pow10(k)
        q == a \div p
        r == a % p
    IN  IF 2 * r > p \/ (2 * r = p /\ q % 2 = 1) THEN q + 1 ELSE q

\* %g with Precision significant digits, of a magnitude a >= 10^Precision
Scientific(a) ==
    LET x0 == Len(Digits(a)) - 1
        m0 == RoundDiv(a, x0 - (Precision - 1))
        carry == m0 >= Pow10(Precision)
        m  == IF carry THEN m0 \div 10 ELSE m0
        x  == IF carry THEN x0 + 1 ELSE x0
        ds == Digits(m)
        fr == StripZeros(Tail(ds))
        ex == IF x < 10 THEN <<"0">> \o Digits(x) ELSE Digits(x)
    IN  <<Head(ds)>> \o (IF Len(fr) > 0 THEN <<".">> \o fr ELSE <<>>)
            \o <<"e", "+">> \o ex

\* out << revenue
FormatDouble(r) ==
    LET a == IF r < 0 THEN -r ELSE r
        sign == IF r < 0 THEN <<"-">> ELSE <<>>
    IN  sign \o (IF a < Pow10(Precision) THEN Digits(a) ELSE Scientific(a))

----------------------------------------------------------------------------
(* iss >> part, and std::stod *)

\* the characters of s from 1-based position i up to the next space
RECURSIVE WordEnd(_, _)
WordEnd(s, i) == IF i > Len(s) \/ s[i] = " " THEN i ELSE WordEnd(s, i + 1)

\* while (iss >> part) parts.push_back(part);
RECURSIVE Tokens(_, _)
Tokens(s, i) ==
    IF i > Len(s) THEN <<>>
    ELSE IF s[i] = " " THEN Tokens(s, i + 1)
    ELSE LET e == WordEnd(s, i) IN <<SubSeq(s, i, e - 1)>> \o Tokens(s, e)

IsDigit(c) == \E d \in 1..10 : DigitChars[d] = c

DigitValue(c) == (CHOOSE d \in 1..10 : DigitChars[d] = c) - 1

RECURSIVE DigitsEnd(_, _)
DigitsEnd(s, i) ==
    IF i <= Len(s) /\ IsDigit(s[i]) THEN DigitsEnd(s, i + 1) ELSE i

RECURSIVE Number(_)
Number(ds) ==
    IF Len(ds) = 0 THEN 0
    ELSE 10 * Number(SubSeq(ds, 1, Len(ds) - 1)) + DigitValue(ds[Len(ds)])

\* std::stod(tok): the value of the longest prefix that is a decimal
\* floating-point literal, or std::invalid_argument when there is none.
\* A value that is no integer is outside the model's doubles and is kept as
\* its mantissa and exponent.
Stod(tok) ==
    LET neg == Len(tok) > 0 /\ tok[1] = "-"
        p0  == IF Len(tok) > 0 /\ tok[1] \in {"-", "+"} THEN 2 ELSE 1
        p1  == DigitsEnd(tok, p0)
        dot == p1 <= Len(tok) /\ tok[p1] = "."
        p2  == IF dot THEN DigitsEnd(tok, p1 + 1) ELSE p1
        ip  == SubSeq(tok, p0, p1 - 1)
        fp  == IF dot THEN SubSeq(tok, p1 + 1, p2 - 1) ELSE <<>>
        hasE == p2 <= Len(tok) /\ tok[p2] \in {"e", "E"}
        q0  == IF hasE /\ p2 + 1 <= Len(tok) /\ tok[p2 + 1] \in {"-", "+"}
               THEN p2 + 2 ELSE p2 + 1
        q1  == IF hasE THEN DigitsEnd(tok, q0) ELSE q0
        expOk == hasE /\ q1 > q0
        eneg == expOk /\ tok[q0 - 1] = "-"
        ex  == IF expOk
               THEN (IF eneg THEN -1 ELSE 1) * Number(SubSeq(tok, q0, q1 - 1))
               ELSE 0
        mant == Number(ip \o fp)
        e   == ex - Len(fp)
        whole == e >= 0 \/ mant % Pow10(-e) = 0
        mag == IF e >= 0 THEN mant * Pow10(e) ELSE mant \div Pow10(-e)
    IN  IF Len(ip) + Len(fp) = 0 THEN [ok |-> FALSE, val |-> 0]
        ELSE IF whole THEN [ok |-> TRUE, val |-> IF neg THEN -mag ELSE mag]
        ELSE [ok |-> TRUE, val |-> <<neg, mant, e>>]

----------------------------------------------------------------------------
(* Component, Game, Group *)

Null == [kind |-> "null"]

\* Game(n, r)
Game(n, r) == [kind |-> "game", name |-> n, revenue |-> r]

\* Group(n), with the children it holds
GroupOf(n, cs) == [kind |-> "group", name |-> n, children |-> cs]

\* isGroup()
IsGroup(c) == c.kind = "group"

\* Group::add: children.push_back
ReversedAdd(cs, c) == <<c>> \o cs

DroppedAdd(cs, c) == cs

GroupAdd(cs, c) == Append(cs, c)

\* Game::addRevenue
IgnoredAddRevenue(g, amount) == g

GameAddRevenue(g, amount) == [g EXCEPT !.revenue = g.revenue + amount]

\* getRevenue: the game's revenue, or the group's loop over its children
RECURSIVE GetRevenue(_)
RECURSIVE SumRevenue(_, _)
SumRevenue(cs, total) ==
    IF Len(cs) = 0 THEN total
    ELSE SumRevenue(Tail(cs), total + GetRevenue(Head(cs)))

FirstChildRevenue(c) ==
    IF IsGroup(c)
    THEN (IF Len(c.children) = 0 THEN 0 ELSE GetRevenue(c.children[1]))
    ELSE c.revenue

GetRevenue(c) == IF IsGroup(c) THEN SumRevenue(c.children, 0) ELSE c.revenue

\* Group::getChildren
GetChildren(g) == [i \in 1..Len(g.children) |-> g.children[i]]

\* Group::getAllGames
RECURSIVE GetAllGames(_)
RECURSIVE CollectGames(_, _)
CollectGames(cs, games) ==
    IF Len(cs) = 0 THEN games
    ELSE CollectGames(Tail(cs),
            IF IsGroup(Head(cs)) THEN games \o GetAllGames(Head(cs))
            ELSE Append(games, Head(cs)))

DirectGamesOnly(g) == SelectSeq(g.children, LAMBDA c : ~IsGroup(c))

GetAllGames(g) == CollectGames(g.children, <<>>)

\* Game::save: one line
GameLine(g, depth) ==
    Indent(depth) \o GAME_PREFIX \o g.name \o <<" ">> \o FormatDouble(g.revenue)

\* Group::save: the header line
GroupLine(g, depth) == Indent(depth) \o GROUP_PREFIX \o g.name

\* save(out, depth): the lines written
RECURSIVE Save(_, _)
RECURSIVE SaveChildren(_, _)
SaveChildren(cs, depth) ==
    IF Len(cs) = 0 THEN <<>>
    ELSE Save(Head(cs), depth) \o SaveChildren(Tail(cs), depth)

Save(c, depth) ==
    IF IsGroup(c)
    THEN <<GroupLine(c, depth)>> \o SaveChildren(c.children, depth + 1)
    ELSE <<GameLine(c, depth)>>

----------------------------------------------------------------------------
(* getDepth, trimSpaces, parse *)

\* the 0-based position after the leading pairs of spaces, from position i
RECURSIVE PairsEnd(_, _)
PairsEnd(line, i) ==
    IF i + 1 < Len(line) /\ line[i + 1] = " " /\ line[i + 2] = " "
    THEN PairsEnd(line, i + 2)
    ELSE i

\* getDepth(line)
GetDepth(line) == PairsEnd(line, 0) \div 2

\* trimSpaces(line)
TrimSpaces(line) == SubStrFrom(line, PairsEnd(line, 0))

\* trimmed.substr(0, 6) == "GROUP "
IsGroupRecord(trimmed) == SubStr(trimmed, 0, 6) = GROUP_PREFIX

\* trimmed.substr(0, 5) == "GAME "
IsGameRecord(trimmed) == SubStr(trimmed, 0, 5) = GAME_PREFIX

\* the whitespace-separated parts of a GAME record
GameParts(trimmed) == Tokens(SubStrFrom(trimmed, 5), 1)

\* gameName: parts[0], then " " + parts[i] for 1 <= i < parts.size() - 1
RECURSIVE JoinName(_, _)
JoinName(parts, i) ==
    IF i >= Len(parts) THEN <<>>
    ELSE (IF i = 1 THEN <<>> ELSE <<" ">>) \o parts[i] \o JoinName(parts, i + 1)

\* what the group's loop does with a non-blank line of depth nextDepth
ChildWhenDeeper(nextDepth, currentDepth) ==
    IF nextDepth <= currentDepth THEN "break" ELSE "child"

LoopStep(nextDepth, currentDepth) ==
    IF nextDepth <= currentDepth THEN "break"
    ELSE IF nextDepth = currentDepth + 1 THEN "child"
    ELSE "skip"

\* whether the group's loop passes over lines[index] (lines 142-145)
BlankEndsNothing(line) == FALSE

LoopSkipsBlank(line) == IsEmpty(line)

\* parse(lines, index): the node returned (Null for nullptr), the cursor on
\* return, and whether std::stod threw instead
RECURSIVE Parse(_, _)
RECURSIVE ParseChildren(_, _, _, _)
ParseChildren(ls, i, currentDepth, children) ==
    IF i >= Len(ls)
    THEN [children |-> children, index |-> i, thrown |-> FALSE]
    ELSE IF LoopSkipsBlank(ls[i + 1])
    THEN ParseChildren(ls, i + 1, currentDepth, children)
    ELSE LET step == LoopStep(GetDepth(ls[i + 1]), currentDepth)
         IN  IF step = "break"
             THEN [children |-> children, index |-> i, thrown |-> FALSE]
             ELSE IF step = "skip"
             THEN ParseChildren(ls, i + 1, currentDepth, children)
             ELSE LET child == Parse(ls, i)
                  IN  IF child.thrown
                      THEN [children |-> children, index |-> child.index,
                            thrown |-> TRUE]
                      ELSE ParseChildren(ls, child.index, currentDepth,
                              IF child.node # Null
                              THEN GroupAdd(children, child.node)
                              ELSE children)

Parse(ls, i) ==
    IF i >= Len(ls) THEN [node |-> Null, index |-> i, thrown |-> FALSE]
    ELSE IF IsEmpty(ls[i + 1]) THEN Parse(ls, i + 1)
    ELSE LET currentDepth == GetDepth(ls[i + 1])
             trimmed == TrimSpaces(ls[i + 1])
             parts == GameParts(trimmed)
         IN  IF IsGroupRecord(trimmed)
             THEN LET r == ParseChildren(ls, i + 1, currentDepth, <<>>)
                  IN  [node |-> IF r.thrown THEN Null
                                ELSE GroupOf(SubStrFrom(trimmed, 6), r.children),
                       index |-> r.index, thrown |-> r.thrown]
             ELSE IF IsGameRecord(trimmed) /\ Len(parts) >= 2
             THEN LET revenue == Stod(parts[Len(parts)])
                  IN  IF revenue.ok
                      THEN [node |-> Game(JoinName(parts, 1), revenue.val),
                            index |-> i + 1, thrown |-> FALSE]
                      ELSE [node |-> Null, index |-> i, thrown |-> TRUE]
             ELSE [node |-> Null, index |-> i + 1, thrown |-> FALSE]

\* what a caller of parse(lines, 0) gets: the node, or Thrown
Thrown == [kind |-> "thrown"]

ParseFromStart(ls) ==
    LET r == Parse(ls, 0) IN IF r.thrown THEN Thrown ELSE r.node

----------------------------------------------------------------------------
(* Reaching into a tree: the pointers the callers hold *)

\* the number of nodes of a tree
RECURSIVE NodeCount(_)
RECURSIVE NodeCountAll(_)
NodeCountAll(cs) ==
    IF Len(cs) = 0 THEN 0 ELSE NodeCount(Head(cs)) + NodeCountAll(Tail(cs))

NodeCount(c) == IF IsGroup(c) THEN 1 + NodeCountAll(c.children) ELSE 1

\* the groups of a tree, each as the child positions that lead to it
RECURSIVE GroupPaths(_)
GroupPaths(c) ==
    IF ~IsGroup(c) THEN {}
    ELSE {<<>>} \cup UNION {{<<i>> \o p : p \in GroupPaths(c.children[i])} :
                              i \in 1..Len(c.children)}

\* the node a path leads to
RECURSIVE NodeAt(_, _)
NodeAt(c, path) ==
    IF Len(path) = 0 THEN c ELSE NodeAt(c.children[Head(path)], Tail(path))

\* group->add(child), for the group a path leads to
RECURSIVE AddAt(_, _, _)
AddAt(c, path, child) ==
    IF Len(path) = 0 THEN [c EXCEPT !.children = GroupAdd(c.children, child)]
    ELSE [c EXCEPT !.children[Head(path)] =
                        AddAt(c.children[Head(path)], Tail(path), child)]

\* games[k - 1]->addRevenue(amount), games being getAllGames() of c
RECURSIVE AddRevenueKth(_, _, _)
RECURSIVE AddRevenueIn(_, _, _)
AddRevenueIn(cs, k, amount) ==
    IF Len(cs) = 0 THEN <<>>
    ELSE LET n == IF IsGroup(Head(cs)) THEN Len(GetAllGames(Head(cs))) ELSE 1
         IN  IF k >= 1 /\ k <= n
             THEN <<AddRevenueKth(Head(cs), k, amount)>> \o Tail(cs)
             ELSE <<Head(cs)>> \o AddRevenueIn(Tail(cs), k - n, amount)

AddRevenueKth(c, k, amount) ==
    IF IsGroup(c)
    THEN [c EXCEPT !.children = AddRevenueIn(c.children, k, amount)]
    ELSE GameAddRevenue(c, amount)

----------------------------------------------------------------------------
(* The names and numbers the model draws from *)

CasinoGames == <<"C", "a", "s", "i", "n", "o", " ", "G", "a", "m", "e", "s">>
TableGames  == <<"T", "a", "b", "l", "e", " ", "G", "a", "m", "e", "s">>
SlotGames   == <<"S", "l", "o", "t", " ", "G", "a", "m", "e", "s">>
Blackjack   == <<"B", "l", "a", "c", "k", "j", "a", "c", "k">>
Roulette    == <<"R", "o", "u", "l", "e", "t", "t", "e">>
MegaJoker   == <<"M", "e", "g", "a", " ", "J", "o", "k", "e", "r">>

GameNames  == {Roulette, MegaJoker}
Revenues   == {0, 1234567}
Amounts    == {25, -50}

\* the nodes handed to Group.add
NewNodes ==
    {Game(Roulette, 40), Game(MegaJoker, 1234567), GroupOf(SlotGames, <<>>)}

NotParsed == [kind |-> "notparsed"]

----------------------------------------------------------------------------
(* The component model and the codec, driven through their interface *)

ParseIdle ==
    /\ lines = <<>> /\ start = 0 /\ index = 0 /\ stack = <<>> /\ retval = Null
    /\ outcome = "idle" /\ calls = {} /\ maxActive = 0 /\ orphans = {}

MenuIdle ==
    /\ root = Null /\ file = [exists |-> FALSE, lines |-> <<>>]
    /\ writable = FALSE /\ console = <<>>
    /\ lastOp = [op |-> "none"] /\ running = "idle" /\ budget = 0

TreeInit ==
    /\ tree = GroupOf(CasinoGames, <<>>)
    /\ text = <<>> /\ saved = <<>> /\ parsed = NotParsed
    /\ phase = "build"
    /\ credits = 0
    /\ ParseIdle /\ MenuIdle

\* group->add(std::move(child)) on a group of the tree
Add(path, child) ==
    /\ phase = "build"
    /\ NodeCount(tree) < MaxNodes
    /\ tree' = AddAt(tree, path, child)
    /\ UNCHANGED <<text, saved, parsed, phase, credits, parseVars, menuVars>>

\* games[k - 1]->addRevenue(amount)
AddRevenue(k, amount) ==
    /\ phase = "build"
    /\ credits < MaxRevOps
    /\ tree' = AddRevenueKth(tree, k, amount)
    /\ credits' = credits + 1
    /\ UNCHANGED <<text, saved, parsed, phase, parseVars, menuVars>>

\* root->save(out, 0), and parse(lines, 0) of the lines written
SaveAndParse ==
    /\ phase = "build"
    /\ saved' = Save(tree, 0)
    /\ text' = Save(tree, 0)
    /\ parsed' = ParseFromStart(Save(tree, 0))
    /\ phase' = "parsed"
    /\ UNCHANGED <<tree, credits, parseVars, menuVars>>

\* root->save(out, 0)
SaveTree ==
    /\ phase = "build"
    /\ saved' = Save(tree, 0)
    /\ text' = Save(tree, 0)
    /\ phase' = "saved"
    /\ UNCHANGED <<tree, parsed, credits, parseVars, menuVars>>

\* a blank line enters the text at position pos
InsertBlank(pos) ==
    /\ phase = "saved"
    /\ Len(text) < Len(saved) + MaxBlanks
    /\ text' = SubSeq(text, 1, pos) \o <<<<>>>> \o SubSeq(text, pos + 1, Len(text))
    /\ UNCHANGED <<tree, saved, parsed, phase, credits, parseVars, menuVars>>

\* size_t index = 0; parse(lines, index)
ParseText ==
    /\ phase = "saved"
    /\ parsed' = ParseFromStart(text)
    /\ phase' = "parsed"
    /\ UNCHANGED <<tree, text, saved, credits, parseVars, menuVars>>

\* the component model: trees built, credited, saved and parsed again
TreeNext ==
    \/ \E path \in GroupPaths(tree), child \in NewNodes : Add(path, child)
    \/ \E k \in 1..Len(GetAllGames(tree)), amount \in Amounts : AddRevenue(k, amount)
    \/ SaveAndParse

SpecTree == TreeInit /\ [][TreeNext]_vars

\* the codec: trees built, saved, blank lines inserted, and parsed
CodecNext ==
    \/ \E path \in GroupPaths(tree), child \in NewNodes : Add(path, child)
    \/ SaveTree
    \/ \E pos \in 0..Len(text) : InsertBlank(pos)
    \/ ParseText

SpecCodec == TreeInit /\ [][CodecNext]_vars

----------------------------------------------------------------------------
(* One run of parse(lines, index), call by call *)

\* the lines of the arbitrary inputs
LGroupA   == GROUP_PREFIX \o <<"a">>
LGroupB   == Indent(1) \o GROUP_PREFIX \o <<"b">>
LGameX    == Indent(1) \o GAME_PREFIX \o <<"x", " ", "1">>
LGameYZ   == Indent(2) \o GAME_PREFIX \o <<"y", " ", "z", " ", "2">>
LJunk     == Indent(1) \o <<"j", "u", "n", "k">>
LGameQ    == Indent(2) \o GAME_PREFIX \o <<"q">>
LGameBad  == Indent(1) \o GAME_PREFIX \o <<"x", " ", "y">>
LOdd      == <<" ">> \o LGameX

LineSet ==
    {<<>>, LGroupA, LGroupB, LGameX, LGameYZ, LJunk, LGameQ, LGameBad, LOdd}

RECURSIVE SeqsUpTo(_, _)
SeqsUpTo(S, n) ==
    IF n = 0 THEN {<<>>}
    ELSE LET shorter == SeqsUpTo(S, n - 1)
         IN  shorter \cup {Append(q, x) : q \in {r \in shorter : Len(r) = n - 1}, x \in S}

\* a call of parse that has just been entered with the cursor at entry
NewCall(entry) ==
    [pc |-> "start", entry |-> entry, currentDepth |-> 0,
     groupName |-> <<>>, children |-> <<>>]

ParseInit ==
    /\ lines \in SeqsUpTo(LineSet, MaxLines)
    /\ start \in 0..(Len(lines) + 1)
    /\ index = start
    /\ stack = <<NewCall(start)>>
    /\ retval = Null
    /\ outcome = "running"
    /\ calls = {}
    /\ maxActive = 1
    /\ orphans = {}
    /\ tree = Null /\ text = <<>> /\ saved = <<>> /\ parsed = NotParsed
    /\ phase = "idle" /\ credits = 0
    /\ MenuIdle

Top == stack[Len(stack)]

Active(pc) == outcome = "running" /\ Len(stack) > 0 /\ Top.pc = pc

\* the innermost call returns node, the cursor being at exit
Return(node, exit) ==
    /\ index' = exit
    /\ retval' = node
    /\ stack' = SubSeq(stack, 1, Len(stack) - 1)
    /\ calls' = calls \cup {[entry |-> Top.entry, exit |-> exit, node |-> node]}
    /\ outcome' = IF Len(stack) = 1 THEN "returned" ELSE "running"
    /\ UNCHANGED <<lines, start, maxActive, orphans>>

\* the innermost call calls parse(lines, index), the cursor being at at
Call(pc, at) ==
    /\ index' = at
    /\ stack' = Append([stack EXCEPT ![Len(stack)].pc = pc], NewCall(at))
    /\ maxActive' = IF Len(stack) + 1 > maxActive THEN Len(stack) + 1 ELSE maxActive
    /\ UNCHANGED <<lines, start, retval, outcome, calls, orphans>>

\* line 125: if (index >= lines.size()) return nullptr;
ParseAtEnd ==
    /\ Active("start")
    /\ index >= Len(lines)
    /\ Return(Null, index)
    /\ UNCHANGED <<treeVars, menuVars>>

\* lines 128-130: a blank line: index++; parse(lines, index) is called
ParseBlank ==
    /\ Active("start")
    /\ index < Len(lines)
    /\ IsEmpty(lines[index + 1])
    /\ Call("blank", index + 1)
    /\ UNCHANGED <<treeVars, menuVars>>

\* line 130: return parse(lines, index);
ParseBlankReturn ==
    /\ Active("blank")
    /\ Return(retval, index)
    /\ UNCHANGED <<treeVars, menuVars>>

\* lines 136-139: a GROUP record: the group is made, index++
ParseGroup ==
    /\ Active("start")
    /\ index < Len(lines)
    /\ ~IsEmpty(lines[index + 1])
    /\ IsGroupRecord(TrimSpaces(lines[index + 1]))
    /\ stack' = [stack EXCEPT ![Len(stack)] =
                    [pc |-> "loop", entry |-> Top.entry,
                     currentDepth |-> GetDepth(lines[index + 1]),
                     groupName |-> SubStrFrom(TrimSpaces(lines[index + 1]), 6),
                     children |-> <<>>]]
    /\ index' = index + 1
    /\ UNCHANGED <<lines, start, retval, outcome, calls, maxActive, orphans>>
    /\ UNCHANGED <<treeVars, menuVars>>

\* whether lines[index] is a GAME record of two parts or more
GameHere ==
    /\ index < Len(lines)
    /\ ~IsEmpty(lines[index + 1])
    /\ ~IsGroupRecord(TrimSpaces(lines[index + 1]))
    /\ IsGameRecord(TrimSpaces(lines[index + 1]))
    /\ Len(GameParts(TrimSpaces(lines[index + 1]))) >= 2

PartsHere == GameParts(TrimSpaces(lines[index + 1]))

\* lines 158-171: a GAME record whose last part std::stod converts
ParseGame ==
    /\ Active("start")
    /\ GameHere
    /\ Stod(PartsHere[Len(PartsHere)]).ok
    /\ Return(Game(JoinName(PartsHere, 1), Stod(PartsHere[Len(PartsHere)]).val),
              index + 1)
    /\ UNCHANGED <<treeVars, menuVars>>

\* line 165: std::stod throws std::invalid_argument, which no caller catches:
\* every active call is left by the exception
ParseGameThrows ==
    /\ Active("start")
    /\ GameHere
    /\ ~Stod(PartsHere[Len(PartsHere)]).ok
    /\ stack' = <<>>
    /\ outcome' = "thrown"
    /\ UNCHANGED <<lines, start, index, retval, calls, maxActive, orphans>>
    /\ UNCHANGED <<treeVars, menuVars>>

\* lines 175-176: any other line: index++; return nullptr;
ParseSkip ==
    /\ Active("start")
    /\ index < Len(lines)
    /\ ~IsEmpty(lines[index + 1])
    /\ ~IsGroupRecord(TrimSpaces(lines[index + 1]))
    /\ ~GameHere
    /\ Return(Null, index + 1)
    /\ UNCHANGED <<treeVars, menuVars>>

\* lines 142-145: the group's loop passes a blank line
LoopBlank ==
    /\ Active("loop")
    /\ index < Len(lines)
    /\ LoopSkipsBlank(lines[index + 1])
    /\ index' = index + 1
    /\ UNCHANGED <<lines, start, stack, retval, outcome, calls, maxActive, orphans>>
    /\ UNCHANGED <<treeVars, menuVars>>

\* what the loop does at the cursor: "end" when the input is used up
StepHere ==
    IF index >= Len(lines) THEN "end"
    ELSE IF LoopSkipsBlank(lines[index + 1]) THEN "blank"
    ELSE LoopStep(GetDepth(lines[index + 1]), Top.currentDepth)

\* the line at the cursor is deeper than a child of the open group
OrphanHere ==
    /\ index < Len(lines)
    /\ ~IsEmpty(lines[index + 1])
    /\ GetDepth(lines[index + 1]) > Top.currentDepth + 1

Inspected == IF OrphanHere THEN orphans \cup {index} ELSE orphans

\* lines 141, 148, 156: the loop ends, return group;
LoopEnd ==
    /\ Active("loop")
    /\ StepHere \in {"end", "break"}
    /\ index' = index
    /\ retval' = GroupOf(Top.groupName, Top.children)
    /\ stack' = SubSeq(stack, 1, Len(stack) - 1)
    /\ calls' = calls \cup {[entry |-> Top.entry, exit |-> index,
                              node |-> GroupOf(Top.groupName, Top.children)]}
    /\ outcome' = IF Len(stack) = 1 THEN "returned" ELSE "running"
    /\ orphans' = Inspected
    /\ UNCHANGED <<lines, start, maxActive>>
    /\ UNCHANGED <<treeVars, menuVars>>

\* lines 149-150: a line one level deeper: parse(lines, index) is called
LoopChild ==
    /\ Active("loop")
    /\ StepHere = "child"
    /\ index' = index
    /\ stack' = Append([stack EXCEPT ![Len(stack)].pc = "child"], NewCall(index))
    /\ maxActive' = IF Len(stack) + 1 > maxActive THEN Len(stack) + 1 ELSE maxActive
    /\ orphans' = Inspected
    /\ UNCHANGED <<lines, start, retval, outcome, calls>>
    /\ UNCHANGED <<treeVars, menuVars>>

\* line 151: if (child) group->add(std::move(child));
LoopChildReturn ==
    /\ Active("child")
    /\ stack' = [stack EXCEPT ![Len(stack)] =
                    [Top EXCEPT !.pc = "loop",
                                !.children = IF retval # Null
                                             THEN GroupAdd(Top.children, retval)
                                             ELSE Top.children]]
    /\ UNCHANGED <<lines, start, index, retval, outcome, calls, maxActive, orphans>>
    /\ UNCHANGED <<treeVars, menuVars>>

\* lines 152-154: a deeper line: index++
LoopOrphan ==
    /\ Active("loop")
    /\ StepHere = "skip"
    /\ index' = index + 1
    /\ orphans' = Inspected
    /\ UNCHANGED <<lines, start, stack, retval, outcome, calls, maxActive>>
    /\ UNCHANGED <<treeVars, menuVars>>

ParseNext ==
    \/ ParseAtEnd
    \/ ParseBlank
    \/ ParseBlankReturn
    \/ ParseGroup
    \/ ParseGame
    \/ ParseGameThrows
    \/ ParseSkip
    \/ LoopBlank
    \/ LoopEnd
    \/ LoopChild
    \/ LoopChildReturn
    \/ LoopOrphan

SpecParse == ParseInit /\ [][ParseNext]_vars

\* the run of parse, call by call, ends as the function Parse does
StepsAgree ==
    /\ outcome = "returned" =>
          /\ ~Parse(lines, start).thrown
          /\ retval = Parse(lines, start).node
          /\ index = Parse(lines, start).index
    /\ outcome = "thrown" => Parse(lines, start).thrown

----------------------------------------------------------------------------
(* The menu loop of main *)

\* what std::cout is given: a literal of the source, or a string of the run
Lit(t) == [lit |-> t]
Str(cs) == [str |-> cs]

RECURSIVE Spaces(_)
Spaces(n) == IF n <= 0 THEN <<>> ELSE <<Lit("  ")>> \o Spaces(n - 1)

\* display(indent)
RECURSIVE Display(_, _)
RECURSIVE DisplayChildren(_, _)
DisplayChildren(cs, indent) ==
    IF Len(cs) = 0 THEN <<>>
    ELSE Display(Head(cs), indent) \o DisplayChildren(Tail(cs), indent)

Display(c, indent) ==
    IF IsGroup(c)
    THEN Spaces(indent) \o <<Lit("----- "), Str(c.name), Lit(" -----\n")>>
            \o DisplayChildren(c.children, indent + 1)
            \o Spaces(indent)
            \o <<Lit("Total: "), Str(FormatDouble(GetRevenue(c))), Lit("\n")>>
    ELSE Spaces(indent) \o <<Str(c.name), Lit(" | Revenue: "),
                              Str(FormatDouble(c.revenue)), Lit("\n")>>

\* const std::string filename = "casino.txt";
Filename == <<"c", "a", "s", "i", "n", "o", ".", "t", "x", "t">>

Menu == Lit("\n1. Display games\n2. Add game\n3. Add revenue\n4. Save\n5. Load\n0. Exit\n")

\* loadFromFile(filename): nullptr when the file cannot be opened
LoadFromFile(f) == IF ~f.exists THEN Null ELSE ParseFromStart(f.lines)

\* line 291: loaded && loaded->isGroup()
AcceptsAnyNode(loaded) == loaded # Null

Accepts(loaded) == loaded # Null /\ IsGroup(loaded)

\* lines 203-214
InitialRoot ==
    GroupOf(CasinoGames,
        <<GroupOf(TableGames, <<Game(Blackjack, 0), Game(Roulette, 0)>>),
          GroupOf(SlotGames, <<Game(MegaJoker, 0)>>)>>)

\* what casino.txt may hold when the program starts
FileValid ==
    Save(GroupOf(CasinoGames,
            <<Game(Roulette, 5), GroupOf(SlotGames, <<Game(MegaJoker, 100)>>)>>), 0)
FileLeafFirst == <<GameLine(Game(Roulette, 5), 0)>>
FileJunkFirst == <<LJunk>> \o FileValid
FileBadNumber == <<GroupLine(GroupOf(CasinoGames, <<>>), 0), LGameBad>>

StartFiles ==
    {[exists |-> FALSE, lines |-> <<>>]}
        \cup {[exists |-> TRUE, lines |-> ls] :
                ls \in {<<>>, FileValid, FileLeafFirst, FileJunkFirst, FileBadNumber}}

Init ==
    /\ root = InitialRoot
    /\ file \in StartFiles
    /\ writable \in BOOLEAN
    /\ console = <<>>
    /\ lastOp = [op |-> "none"]
    /\ running = "menu"
    /\ budget = MaxMenuOps
    /\ tree = Null /\ text = <<>> /\ saved = <<>> /\ parsed = NotParsed
    /\ phase = "idle" /\ credits = 0
    /\ ParseIdle

\* choice 0: break
Exit ==
    /\ running = "menu"
    /\ running' = "exited"
    /\ console' = <<Menu>>
    /\ lastOp' = [op |-> "exit"]
    /\ UNCHANGED <<root, file, writable, budget, treeVars, parseVars>>

\* case 1: root->display()
DisplayGames ==
    /\ running = "menu"
    /\ console' = <<Menu>> \o Display(root, 0)
    /\ lastOp' = [op |-> "display"]
    /\ UNCHANGED <<root, file, writable, running, budget, treeVars, parseVars>>

\* the numbered groups case 2 prints
RECURSIVE GroupList(_, _)
GroupList(children, i) ==
    IF i > Len(children) THEN <<>>
    ELSE (IF IsGroup(children[i])
          THEN <<Str(Digits(i)), Lit(". "), Str(children[i].name), Lit("\n")>>
          ELSE <<>>) \o GroupList(children, i + 1)

\* case 2: a game is added to the group chosen among the root's children
AddGame(groupIndex, gameName, revenue) ==
    /\ running = "menu"
    /\ budget > 0
    /\ LET children == GetChildren(root)
           chosen == /\ groupIndex > 0
                     /\ groupIndex <= Len(children)
                     /\ IsGroup(children[groupIndex])
       IN  /\ root' = IF chosen
                      THEN AddAt(root, <<groupIndex>>, Game(gameName, revenue))
                      ELSE root
           /\ console' = <<Menu, Lit("Groups:\n")>> \o GroupList(children, 1)
                            \o <<Lit("Select group: ")>>
                            \o (IF chosen
                                THEN <<Lit("Game name: "), Lit("Revenue: "),
                                       Lit("Game added!\n")>>
                                ELSE <<>>)
           /\ lastOp' = [op |-> "add", done |-> chosen]
    /\ budget' = budget - 1
    /\ UNCHANGED <<file, writable, running, treeVars, parseVars>>

\* the numbered games case 3 prints
RECURSIVE GameList(_, _)
GameList(games, i) ==
    IF i > Len(games) THEN <<>>
    ELSE <<Str(Digits(i)), Lit(". "), Str(games[i].name), Lit(" (Revenue: "),
           Str(FormatDouble(GetRevenue(games[i]))), Lit(")\n")>>
            \o GameList(games, i + 1)

\* case 3: revenue is added to the game chosen among all the games
AddRevenueTo(gameIndex, amount) ==
    /\ running = "menu"
    /\ budget > 0
    /\ LET games == GetAllGames(root)
           chosen == gameIndex > 0 /\ gameIndex <= Len(games)
       IN  /\ root' = IF chosen THEN AddRevenueKth(root, gameIndex, amount) ELSE root
           /\ console' = <<Menu, Lit("Games:\n")>> \o GameList(games, 1)
                            \o <<Lit("Select game: ")>>
                            \o (IF chosen
                                THEN <<Lit("Add revenue: "), Lit("Revenue added!\n")>>
                                ELSE <<>>)
           /\ lastOp' = [op |-> "revenue", done |-> chosen]
    /\ budget' = budget - 1
    /\ UNCHANGED <<file, writable, running, treeVars, parseVars>>

\* what saveToFile returns to main, the file opened or not
SaveReturns(opened) == "void"

\* case 4: saveToFile(root.get(), filename)
SaveToFile ==
    /\ running = "menu"
    /\ file' = IF writable THEN [exists |-> TRUE, lines |-> Save(root, 0)] ELSE file
    /\ console' = <<Menu>> \o (IF writable
                               THEN <<Lit("Saved to: "), Str(Filename), Lit("\n")>>
                               ELSE <<>>)
    /\ lastOp' = [op |-> "save", opened |-> writable, ret |-> SaveReturns(writable)]
    /\ UNCHANGED <<root, writable, running, budget, treeVars, parseVars>>

\* case 5, once loadFromFile(filename) has ended: root.reset and display, or
\* the failure message; an exception leaves main and ends the program
LoadEnds(loaded) ==
    IF loaded = Thrown
    THEN /\ running' = "terminated"
         /\ console' = <<Menu>>
         /\ lastOp' = [op |-> "load", done |-> FALSE]
         /\ root' = root
    ELSE /\ running' = running
         /\ root' = IF Accepts(loaded) THEN loaded ELSE root
         /\ console' = <<Menu>> \o
               (IF Accepts(loaded)
                THEN <<Lit("Loaded from: "), Str(Filename), Lit("\n")>>
                         \o Display(loaded, 0)
                ELSE <<Lit("Failed to load file!\n")>>)
         /\ lastOp' = [op |-> "load", done |-> Accepts(loaded)]

\* case 5: loadFromFile(filename), and the root replaced by a loaded group
Load ==
    /\ running = "menu"
    /\ LoadEnds(LoadFromFile(file))
    /\ UNCHANGED <<file, writable, budget, treeVars, parseVars>>

Next ==
    \/ Exit
    \/ DisplayGames
    \/ \E groupIndex \in 0..(Len(GetChildren(root)) + 1),
          gameName \in GameNames, revenue \in Revenues :
            AddGame(groupIndex, gameName, revenue)
    \/ \E gameIndex \in 0..(Len(GetAllGames(root)) + 1), amount \in Amounts :
            AddRevenueTo(gameIndex, amount)
    \/ SaveToFile
    \/ Load

Spec == Init /\ [][Next]_vars

----------------------------------------------------------------------------
(* What the claims speak of *)

\* the leaves of a tree, each as the child positions that lead to it
RECURSIVE LeafPaths(_)
LeafPaths(c) ==
    IF ~IsGroup(c) THEN {<<>>}
    ELSE UNION {{<<i>> \o p : p \in LeafPaths(c.children[i])} :
                  i \in 1..Len(c.children)}

IsPrefix(p, q) == Len(p) <= Len(q) /\ SubSeq(q, 1, Len(p)) = p

\* p comes before q left to right, neither being above the other
RECURSIVE LeftOf(_, _)
LeftOf(p, q) ==
    /\ Len(p) > 0 /\ Len(q) > 0
    /\ \/ Head(p) < Head(q)
       \/ Head(p) = Head(q) /\ LeftOf(Tail(p), Tail(q))

\* the leaves of a tree from left to right
RECURSIVE InOrder(_, _)
InOrder(c, paths) ==
    IF paths = {} THEN <<>>
    ELSE LET first == CHOOSE p \in paths : \A q \in paths \ {p} : LeftOf(p, q)
         IN  <<NodeAt(c, first)>> \o InOrder(c, paths \ {first})

RECURSIVE SeqSum(_)
SeqSum(xs) == IF Len(xs) = 0 THEN 0 ELSE Head(xs) + SeqSum(Tail(xs))

\* every group of a tree
GroupsOf(c) == {NodeAt(c, p) : p \in GroupPaths(c)}

\* the trees of a state: the built one, and the parsed one
TreesOfState ==
    {tree} \cup (IF parsed.kind = "group" THEN {parsed} ELSE {})

\* whether sub occurs in s
Occurs(sub, s) ==
    \E i \in 0..(Len(s) - Len(sub)) : SubStr(s, i, Len(sub)) = sub

\* no name of the tree holds a reserved prefix or a newline
RECURSIVE NamesPlain(_)
NamesPlain(c) ==
    /\ ~Occurs(GROUP_PREFIX, c.name)
    /\ ~Occurs(GAME_PREFIX, c.name)
    /\ ~Occurs(<<"\n">>, c.name)
    /\ IsGroup(c) => \A i \in 1..Len(c.children) : NamesPlain(c.children[i])

\* C1: parsing from cursor 0 the lines save wrote for a tree whose names
\* hold no reserved prefix and no newline yields a tree equal to it.
C1_RoundTrip ==
    (phase = "parsed" /\ text = saved /\ NamesPlain(tree)) => parsed = tree

\* every revenue of the tree is written with at most Precision digits
RECURSIVE ShortRevenues(_)
ShortRevenues(c) ==
    IF IsGroup(c) THEN \A i \in 1..Len(c.children) : ShortRevenues(c.children[i])
    ELSE c.revenue > -Pow10(Precision) /\ c.revenue < Pow10(Precision)

\* what holds of the round trip: it yields the tree when every revenue has
\* at most Precision digits (the names of NewNodes are words separated by
\* single spaces).
RoundTripShortRevenues ==
    (phase = "parsed" /\ text = saved /\ ShortRevenues(tree)) => parsed = tree

\* C3, in every state: the revenue of every group is the sum of the revenues
\* of the leaves getAllGames returns for it, and an empty group has revenue 0.
AggregationInv ==
    \A t \in TreesOfState : \A g \in GroupsOf(t) :
        /\ GetRevenue(g) =
              SeqSum([i \in 1..Len(GetAllGames(g)) |-> GetRevenue(GetAllGames(g)[i])])
        /\ Len(g.children) = 0 => GetRevenue(g) = 0

\* C3, in every addRevenue step: one leaf gains the amount, every group that
\* holds the leaf gains exactly the amount, and no other group changes.
AddRevenueExact ==
    credits' # credits =>
        \E lp \in LeafPaths(tree), a \in Amounts :
            /\ GetRevenue(NodeAt(tree', lp)) = GetRevenue(NodeAt(tree, lp)) + a
            /\ \A gp \in GroupPaths(tree) :
                  GetRevenue(NodeAt(tree', gp)) =
                      GetRevenue(NodeAt(tree, gp)) + (IF IsPrefix(gp, lp) THEN a ELSE 0)

\* C3: in every state the revenue of every group, built or parsed, is the
\* sum of the revenues of the leaves getAllGames returns for it, an empty
\* group has revenue 0, and addRevenue(leaf, a) changes the revenue of every
\* group that holds the leaf by exactly a.
C3_Aggregation == []AggregationInv /\ [][AddRevenueExact]_vars

C3_Witness ==
    /\ credits > 0
    /\ \E gp \in GroupPaths(tree) :
          /\ Len(gp) > 0
          /\ Len(GetAllGames(NodeAt(tree, gp))) > 0
          /\ GetRevenue(NodeAt(tree, gp)) \in {65, -10}
          /\ GetRevenue(tree) > 1234567

\* C4: the blank lines inserted into the lines save wrote do not change the
\* tree parse returns from cursor 0.
C4_BlankTolerance ==
    phase = "parsed" => parsed = ParseFromStart(saved)

C4_Witness ==
    /\ phase = "parsed"
    /\ IsGroup(parsed) /\ NodeCount(parsed) >= 4 /\ parsed = tree
    /\ \E i \in 2..(Len(text) - 1) : IsEmpty(text[i]) /\ GetDepth(text[i + 1]) = 2
    /\ IsEmpty(text[Len(text)])

\* the GAME lines of a saved text, without their indentation
GameLinesOf(ls) ==
    LET games == SelectSeq(ls, LAMBDA l : IsGameRecord(TrimSpaces(l)))
    IN  [i \in 1..Len(games) |-> TrimSpaces(games[i])]

\* C8, in every state: getAllGames returns the leaves of the subtree from
\* left to right, depth first, which is the order of the GAME lines save
\* writes for the subtree.
OrderInv ==
    \A t \in TreesOfState : \A g \in GroupsOf(t) :
        /\ GetAllGames(g) = InOrder(g, LeafPaths(g))
        /\ GameLinesOf(Save(g, 0)) =
              [i \in 1..Len(GetAllGames(g)) |-> GameLine(GetAllGames(g)[i], 0)]

\* C8, in every add step: getChildren of the group added to returns what it
\* returned before, in the same order, and then the new child; getChildren of
\* every other group returns as many children as before.
AddAppends ==
    NodeCount(tree') > NodeCount(tree) =>
        \E p \in GroupPaths(tree) :
            LET old == GetChildren(NodeAt(tree, p))
                new == GetChildren(NodeAt(tree', p))
            IN  /\ Len(new) = Len(old) + 1
                /\ SubSeq(new, 1, Len(old)) = old
                /\ new[Len(new)] \in NewNodes
                /\ \A q \in GroupPaths(tree) \ {p} :
                      Len(GetChildren(NodeAt(tree', q)))
                          = Len(GetChildren(NodeAt(tree, q)))

\* C8: getChildren returns the children of a group in the order they were
\* added, and getAllGames returns the leaves of a subtree depth first from
\* left to right, the order of the GAME lines save writes for it.
C8_Order == []OrderInv /\ [][AddAppends]_vars

C8_Witness ==
    /\ phase = "build"
    /\ Len(GetChildren(tree)) = 2
    /\ IsGroup(GetChildren(tree)[1]) /\ ~IsGroup(GetChildren(tree)[2])
    /\ Len(GetAllGames(tree)) = 2
    /\ GetAllGames(tree)[1] # GetAllGames(tree)[2]

\* the lines without the one at 1-based position i
RemoveAt(ls, i) == SubSeq(ls, 1, i - 1) \o SubSeq(ls, i + 1, Len(ls))

\* what parse(ls, st) ends with: the node (Null for nullptr), or Thrown
ParseOutcome(ls, st) ==
    LET r == Parse(ls, st) IN IF r.thrown THEN Thrown ELSE r.node

\* what the run of parse has ended with
FinalOutcome == IF outcome = "thrown" THEN Thrown ELSE retval

Ended == outcome \in {"returned", "thrown"}

IsNode(c) == c.kind \in {"group", "game"}

\* a non-blank line that is no GROUP record and no GAME record of two parts
Unusable(line) ==
    /\ ~IsEmpty(line)
    /\ ~IsGroupRecord(TrimSpaces(line))
    /\ ~(IsGameRecord(TrimSpaces(line)) /\ Len(GameParts(TrimSpaces(line))) >= 2)

\* C2: an unrecognized line, an orphan line or a leaf record of fewer than
\* two parts, wherever it stands, is skipped and the load yields the tree of
\* the remaining records.
C2_AnomalySkipped ==
    (outcome = "returned" /\ start = 0) =>
        \A i \in 1..Len(lines) :
            ((Unusable(lines[i]) \/ (i - 1) \in orphans)
                    /\ IsNode(ParseOutcome(RemoveAt(lines, i), 0)))
                => retval = ParseOutcome(RemoveAt(lines, i), 0)

\* C5, in every step that passes an orphan line: the cursor advances by
\* exactly one and no call is made or ended.
OrphanStep ==
    orphans' # orphans =>
        /\ orphans' = orphans \cup {index}
        /\ index' = index + 1
        /\ stack' = stack

\* C5, once parse has ended: it ended as it ends on the same input without
\* any one of the orphan lines it passed.
OrphanDropped ==
    Ended => \A i \in orphans :
                /\ i >= start
                /\ FinalOutcome = ParseOutcome(RemoveAt(lines, i + 1), start)

\* C5: a non-blank line deeper than a child of the group whose children are
\* being parsed is dropped by advancing the cursor by exactly one, and parse
\* ends as it ends on the same input without that line.
C5_OrphanTolerance == []OrphanDropped /\ [][OrphanStep]_vars

C5_Witness ==
    /\ outcome = "returned"
    /\ IsGroup(retval) /\ Len(retval.children) >= 1
    /\ \E i \in orphans : i + 1 < Len(lines) /\ i > start

\* every finished call moved the cursor forward within the input, or found
\* the input used up and returned no node
CallsProgress ==
    \A c \in calls :
        IF c.entry < Len(lines)
        THEN c.entry < c.exit /\ c.exit <= Len(lines)
        ELSE c.exit = c.entry /\ c.node = Null

\* C9: every call of parse returns, with the cursor moved forward when the
\* input was not used up, and not moved and no node otherwise.
C9_Progress == outcome # "thrown" /\ CallsProgress

\* the nesting levels of a tree
RECURSIVE TreeDepth(_)
RECURSIVE MaxDepth(_, _)
MaxDepth(cs, m) ==
    IF Len(cs) = 0 THEN m
    ELSE MaxDepth(Tail(cs), IF TreeDepth(Head(cs)) > m THEN TreeDepth(Head(cs)) ELSE m)

TreeDepth(c) ==
    IF c.kind = "group" THEN 1 + MaxDepth(c.children, 0)
    ELSE IF c.kind = "game" THEN 1
    ELSE 0

\* the number of consecutive blank lines from 0-based position i
RECURSIVE BlanksFrom(_, _)
BlanksFrom(ls, i) ==
    IF i < Len(ls) /\ Len(ls[i + 1]) = 0 THEN 1 + BlanksFrom(ls, i + 1) ELSE 0

\* the active calls that have a group open
OpenGroups == Cardinality({k \in 1..Len(stack) : stack[k].pc \in {"loop", "child"}})

\* C10 as stated: the largest number of simultaneously active calls equals
\* the depth of the tree produced.
C10_DepthEquals ==
    (outcome = "returned" /\ IsNode(retval)) => maxActive = TreeDepth(retval)

\* C10 as amended: the largest number of simultaneously active calls is the
\* depth of the returned tree plus the number of leading blank lines, or one
\* more; while parse runs, the active calls are at most the leading blank
\* lines, the open groups, and one more.
C10_DepthBound ==
    /\ Len(stack) <= BlanksFrom(lines, start) + OpenGroups + 1
    /\ outcome = "returned" =>
          /\ maxActive >= BlanksFrom(lines, start) + TreeDepth(retval)
          /\ maxActive <= BlanksFrom(lines, start) + TreeDepth(retval) + 1

C10_Witness ==
    /\ outcome = "returned"
    /\ BlanksFrom(lines, start) >= 1
    /\ TreeDepth(retval) >= 2
    /\ maxActive = BlanksFrom(lines, start) + TreeDepth(retval) + 1

\* the first line that is not blank, or <<>>
RECURSIVE FirstRecord(_)
FirstRecord(ls) ==
    IF Len(ls) = 0 THEN <<>>
    ELSE IF IsEmpty(Head(ls)) THEN FirstRecord(Tail(ls))
    ELSE Head(ls)

\* a load that cannot open its source, whose parse yields no node, or whose
\* first record is a leaf
LoadYieldsNoGroup(f) ==
    \/ ~f.exists
    \/ ParseFromStart(f.lines) = Null
    \/ IsGameRecord(TrimSpaces(FirstRecord(f.lines)))

\* C6, in every state: the root is a Group.
RootIsGroup == root.kind = "group"

\* C6, in every step: a load that yields no group leaves the tree as it is,
\* a load that replaces the root read a GROUP record first, and display,
\* save and exit leave the tree as it is.
RootKept ==
    /\ (lastOp'.op = "load" /\ LoadYieldsNoGroup(file)) => root' = root
    /\ (lastOp'.op = "load" /\ root' # root) =>
          /\ file.exists
          /\ IsGroupRecord(TrimSpaces(FirstRecord(file.lines)))
          /\ root' = ParseFromStart(file.lines)
    /\ root' # root => lastOp'.op \in {"load", "add", "revenue"}

\* C6: the root is replaced only by a load that yields a Group: a load whose
\* source cannot be opened, whose parse yields no node or whose first record
\* is a leaf leaves the tree as it is, and the root is a Group in every state.
C6_RootReplaced == []RootIsGroup /\ [][RootKept]_vars

C6_Witness ==
    /\ lastOp.op = "load" /\ ~lastOp.done
    /\ file.exists /\ IsGameRecord(TrimSpaces(FirstRecord(file.lines)))
    /\ IsNode(ParseFromStart(file.lines))
    /\ root # InitialRoot

\* C7: a save whose destination cannot be opened returns to its caller
\* something a successful save does not return.
C7_FailureSurfaced ==
    (lastOp.op = "save" /\ ~lastOp.opened) => lastOp.ret # SaveReturns(TRUE)

\* what holds of a save whose destination cannot be opened: the file and the
\* tree are as they were, and nothing is printed after the menu.
FailedSaveStep ==
    (lastOp'.op = "save" /\ ~lastOp'.opened) =>
        file' = file /\ root' = root /\ console' = <<Menu>>

FailedSaveChangesNothing == [][FailedSaveStep]_vars

====
